---- MODULE Spec2Model ----
(***************************************************************************)
(* A model of dashboard.py: the Streamlit script that loads the processed  *)
(* news table, counts news per country inside a date range, lists the news *)
(* of a selected country page by page and asks an external service for an  *)
(* analysis.  Streamlit runs the script top to bottom on every interaction;*)
(* pc is the position of the current run.                                  *)
(*                                                                         *)
(* The text of a 'Countries Mentioned' cell is modelled as a sequence of    *)
(* one-character strings.  A timestamp is a positive integer (a tick), a   *)
(* calendar date is the tick divided by TicksPerDay.                       *)
(***************************************************************************)
EXTENDS Integers, Sequences, FiniteSets, TLC

VARIABLES
    csv,              \* the rows of processed_news_data.csv, as text cells
    csv_readable,     \* whether pd.read_csv can read the file
    columns,          \* the column names in the file's header
    cache,            \* st.cache_data: <<>> or <<the value load_data returned>>
    session_state,    \* st.session_state: menu_selection, selected_country
    defined,          \* the script-level names bound so far in this run
    data,             \* the table load_data returned
    date_range,       \* <<start, end>> from the slider
    choropleth_data,  \* the counts table
    top_countries,    \* choropleth_data.nlargest(3, 'News_Count')
    country_news,     \* data[mask]
    total_pages,
    page,
    paginated_news,
    shown,            \* what the run has written to the page
    caught,           \* the exception the except clause caught, or "none"
    uncaught,         \* the exception that ended the run outside try, or "none"
    pc

vars == <<csv, csv_readable, columns, cache, session_state, defined, data,
          date_range, choropleth_data, top_countries, country_news,
          total_pages, page, paginated_news, shown, caught, uncaught, pc>>

---------------------------------------------------------------------------
(* Bounds of the model *)

MaxRows == 3        \* rows of the csv file
MaxTs == 2          \* timestamps are the ticks 1 .. MaxTs
TicksPerDay == 2    \* ticks in one calendar day
MaxRecs == 4        \* records handed to the aggregator and to the news filter
MaxDate == 0        \* calendar dates 0 .. MaxDate in those records
MaxCount == 2       \* news per country in the larger tables of the aggregator
MaxNews == 23       \* matching records handed to the pagination
MaxFileRows == 2    \* rows of the csv file in the runs of the whole script

---------------------------------------------------------------------------
(* Values *)

\* pandas' missing timestamp (errors='coerce')
NaT == -1

\* pandas' missing value in a text column: no text, distinct from every text
NaN == <<"NaN">>

Unknown == <<"U", "n", "k", "n", "o", "w", "n">>

Titles == {"A", "B"}

\* A Pub_Date cell is text; k in 1 .. MaxTs stands for text that parses to
\* tick k, 0 for text that is no date.
RawDates == 0 .. MaxTs

\* Conflict Escalation cells, as text in the file
RawFlags == {"True", "False", "1"}

BoolTexts == {"True", "False"}
IntTexts == {"1", "0"}

\* The subsequence of s at the indices in I, in order.
Pick(s, I) ==
    LET F[k \in 0 .. Len(s)] ==
            IF k = 0 THEN <<>>
            ELSE IF k \in I THEN Append(F[k - 1], s[k]) ELSE F[k - 1]
    IN  F[Len(s)]

---------------------------------------------------------------------------
(* load_data *)

\* The dtype pd.read_csv gives a column of these cells: bool when every cell
\* is a boolean literal, int64 when every cell is an integer, else the cells
\* stay text (object).
InferDtype(cells) ==
    IF cells = {} THEN "object"
    ELSE IF cells \subseteq BoolTexts THEN "bool"
    ELSE IF cells \subseteq IntTexts THEN "int64"
    ELSE "object"

\* pd.read_csv: the frame, one row per line, indexed from 1, Pub_Date still
\* text, Conflict Escalation converted to the column's dtype.
ReadCsv(raw) ==
    LET dt == InferDtype({raw[i].Conflict_Escalation : i \in 1 .. Len(raw)})
    IN  [i \in 1 .. Len(raw) |->
            [index |-> i,
             News_Title |-> raw[i].News_Title,
             Pub_Date |-> raw[i].Pub_Date,
             Countries_Mentioned |-> raw[i].Countries_Mentioned,
             Conflict_Escalation |->
                 [dtype |-> dt, v |-> raw[i].Conflict_Escalation]]]

\* pd.to_datetime(..., errors='coerce') on one cell
ToDatetimeCell(text) == IF text \in 1 .. MaxTs THEN text ELSE NaT

ToDatetime(frame) ==
    [i \in 1 .. Len(frame) |->
        [frame[i] EXCEPT !.Pub_Date = ToDatetimeCell(frame[i].Pub_Date)]]

\* EqTrue as a test of truthiness: every non-zero number and every
\* non-empty text passes.
MutEqTrueTruthy(cell) ==
    \/ cell.dtype = "bool" /\ cell.v = "True"
    \/ cell.dtype = "int64" /\ cell.v # "0"
    \/ cell.dtype = "object" /\ cell.v # ""

\* cell == True, as Python and numpy compare: the boolean True and the
\* number 1 are equal to True, text never is.
EqTrue(cell) ==
    \/ cell.dtype = "bool" /\ cell.v = "True"
    \/ cell.dtype = "int64" /\ cell.v = "1"

\* data[data['Conflict Escalation'] == True]
FilterEscalation(frame) ==
    Pick(frame, {i \in 1 .. Len(frame) : EqTrue(frame[i].Conflict_Escalation)})

\* sort_values('Pub_Date'): ascending, NaT last (na_position='last') in the
\* order they had; the default kind is quicksort, which is not stable, so
\* rows with equal timestamps come out in any order.
SortValues(frame) ==
    LET n == Len(frame)
        valid == {i \in 1 .. n : frame[i].Pub_Date # NaT}
        perms == {p \in [1 .. n -> 1 .. n] :
                    /\ \A i, j \in 1 .. n : i # j => p[i] # p[j]
                    /\ \A i, j \in 1 .. n : i < j =>
                         IF p[i] \in valid
                         THEN p[j] \in valid =>
                                frame[p[i]].Pub_Date <= frame[p[j]].Pub_Date
                         ELSE p[j] \notin valid /\ p[i] < p[j]}
    IN  {[i \in 1 .. n |-> frame[p[i]]] : p \in perms}

MutDropDuplicatesNone(frame) == frame

\* drop_duplicates(subset='News_Title', keep='last')
DropDuplicates(frame) ==
    Pick(frame, {i \in 1 .. Len(frame) :
                    \A j \in (i + 1) .. Len(frame) :
                        frame[j].News_Title # frame[i].News_Title})

\* .dt.date on one cell
ToDate(ts) == IF ts = NaT THEN NaT ELSE ts \div TicksPerDay

DtDate(frame) ==
    [i \in 1 .. Len(frame) |->
        [frame[i] EXCEPT !.Pub_Date = ToDate(frame[i].Pub_Date)]]

\* The values load_data can return for the file's rows.
LoadResults(raw) ==
    {DtDate(DropDuplicates(s)) :
        s \in SortValues(FilterEscalation(ToDatetime(ReadCsv(raw))))}

\* The columns load_data indexes by name
LoadColumns == {"Pub_Date", "Conflict Escalation", "News_Title"}

AllColumns == LoadColumns \cup {"Countries Mentioned", "URL"}

\* An exception raised inside the try block: the except clause shows it and
\* the run goes on after the if/elif statement.
Raise(e) ==
    /\ caught' = e
    /\ shown' = shown \cup {"error"}
    /\ pc' = "analysis"

\* if menu_selection == "Paper": ... elif menu_selection == "Dashboard": ...
Menu ==
    /\ pc = "menu"
    /\ IF session_state.menu_selection = "Paper"
       THEN /\ shown' = shown \cup {"paper"}
            /\ pc' = "analysis"
       ELSE /\ shown' = shown \cup {"title"}
            /\ pc' = "load"
    /\ UNCHANGED <<csv, csv_readable, columns, cache, session_state, defined,
                   data, date_range, choropleth_data, top_countries,
                   country_news, total_pages, page, paginated_news, caught,
                   uncaught>>

\* data = load_data(): the cached value when there is one; else the file is
\* read, and a failure to read it is raised into the try block.
LoadData ==
    /\ pc = "load"
    /\ IF cache # <<>>
       THEN /\ data' = cache[1]
            /\ defined' = defined \cup {"data"}
            /\ pc' = "slider"
            /\ UNCHANGED <<cache, shown, caught>>
       ELSE IF ~csv_readable
       THEN /\ Raise("FileNotFoundError")
            /\ UNCHANGED <<data, cache, defined>>
       ELSE IF ~(LoadColumns \subseteq columns)
       THEN /\ Raise("KeyError")
            /\ UNCHANGED <<data, cache, defined>>
       ELSE /\ \E d \in LoadResults(csv) :
                 /\ data' = d
                 /\ cache' = <<d>>
            /\ defined' = defined \cup {"data"}
            /\ pc' = "slider"
            /\ UNCHANGED <<shown, caught>>
    /\ UNCHANGED <<csv, csv_readable, columns, session_state, date_range,
                   choropleth_data, top_countries, country_news, total_pages,
                   page, paginated_news, uncaught>>

---------------------------------------------------------------------------
(* The date range *)

Min(S) == CHOOSE x \in S : \A y \in S : x <= y
Max(S) == CHOOSE x \in S : \A y \in S : y <= x

ValidDates(frame) == {frame[i].Pub_Date : i \in 1 .. Len(frame)} \ {NaT}

\* min_date, max_date and st.slider.  With every date valid the slider
\* returns a pair start <= end between the least and the greatest date.  With
\* a NaT in the column, or no row at all, min() and the slider either raise
\* or go on, depending on the versions of pandas and streamlit installed;
\* when they go on without any valid date the range is <<NaT, NaT>>.
Slider ==
    /\ pc = "slider"
    /\ LET dates == ValidDates(data)
           clean == dates # {} /\ \A i \in 1 .. Len(data) : data[i].Pub_Date # NaT
       IN  \E fails \in (IF clean THEN {FALSE} ELSE BOOLEAN) :
             IF fails
             THEN /\ Raise("TypeError")
                  /\ UNCHANGED <<date_range, defined>>
             ELSE /\ IF dates = {}
                     THEN date_range' = <<NaT, NaT>>
                     ELSE \E a, b \in Min(dates) .. Max(dates) :
                            /\ a <= b
                            /\ date_range' = <<a, b>>
                  /\ defined' = defined \cup {"date_range"}
                  /\ pc' = "choropleth"
                  /\ UNCHANGED <<shown, caught>>
    /\ UNCHANGED <<csv, csv_readable, columns, cache, session_state, data,
                   choropleth_data, top_countries, country_news, total_pages,
                   page, paginated_news, uncaught>>

---------------------------------------------------------------------------
(* prepare_choropleth_data *)

\* (Pub_Date >= range[0]) & (Pub_Date <= range[1]) on one cell of an object
\* column: a comparison with a missing value on either side is False.
MutInRangeExclusiveEnd(date, range) ==
    /\ date # NaT /\ range[1] # NaT /\ range[2] # NaT
    /\ date >= range[1]
    /\ date < range[2]

InRange(date, range) ==
    /\ date # NaT /\ range[1] # NaT /\ range[2] # NaT
    /\ date >= range[1]
    /\ date <= range[2]

FilterRange(frame, range) ==
    Pick(frame, {i \in 1 .. Len(frame) : InRange(frame[i].Pub_Date, range)})

\* fillna('Unknown') on one cell
FillNa(text) == IF text = NaN THEN Unknown ELSE text

\* The distinct values of a column, in the order of their first occurrence
FirstSeen(col) ==
    Pick(col, {i \in 1 .. Len(col) : \A j \in 1 .. (i - 1) : col[j] # col[i]})

CountOf(col, v) == Cardinality({i \in 1 .. Len(col) : col[i] = v})

\* value_counts() without its sort: the counts in the order the values were
\* first seen.
MutValueCountsUnsorted(col) ==
    LET keys == FirstSeen(col)
    IN  {[i \in 1 .. Len(keys) |->
            [Country |-> keys[i], News_Count |-> CountOf(col, keys[i])]]}

\* value_counts().reset_index(): one row per distinct value with its count,
\* sorted by count, descending.  The sort is sort_values with the default
\* kind, quicksort, which is not stable: rows with equal counts come out in
\* any order.
ValueCounts(col) ==
    LET keys == FirstSeen(col)
        n == Len(keys)
        perms == {p \in [1 .. n -> 1 .. n] :
                    /\ \A i, j \in 1 .. n : i # j => p[i] # p[j]
                    /\ \A i, j \in 1 .. n : i < j =>
                         CountOf(col, keys[p[i]]) >= CountOf(col, keys[p[j]])}
    IN  {[i \in 1 .. n |->
            [Country |-> keys[p[i]], News_Count |-> CountOf(col, keys[p[i]])]] :
         p \in perms}

\* prepare_choropleth_data with a guard the code does not have: an inverted
\* range raises.
MutPrepareRaisesOnInverted(frame, range, cols) ==
    IF range[1] > range[2]
    THEN [error |-> "EmptyRangeError", tables |-> {}]
    ELSE IF "Countries Mentioned" \notin cols
    THEN [error |-> "ValueError", tables |-> {}]
    ELSE [error |-> "none",
          tables |-> LET filtered == FilterRange(frame, range)
                     IN  ValueCounts([i \in 1 .. Len(filtered) |->
                               FillNa(filtered[i].Countries_Mentioned)])]

\* prepare_choropleth_data(frame, range) on a frame with the columns cols:
\* the exception it raises, or "none" and the tables it can return.  The rows
\* are filtered before the column is looked for, and the range is not
\* checked.
PrepareChoroplethData(frame, range, cols) ==
    LET filtered == FilterRange(frame, range)
    IN  IF "Countries Mentioned" \notin cols
        THEN [error |-> "ValueError", tables |-> {}]
        ELSE [error |-> "none",
              tables |-> ValueCounts([i \in 1 .. Len(filtered) |->
                               FillNa(filtered[i].Countries_Mentioned)])]

\* choropleth_data = prepare_choropleth_data(data, date_range)
PrepareChoropleth ==
    /\ pc = "choropleth"
    /\ LET r == PrepareChoroplethData(data, date_range, columns)
       IN  IF r.error # "none"
           THEN /\ Raise(r.error)
                /\ UNCHANGED <<choropleth_data, defined>>
           ELSE /\ \E c \in r.tables : choropleth_data' = c
                /\ defined' = defined \cup {"choropleth_data"}
                /\ pc' = "map"
                /\ UNCHANGED <<shown, caught>>
    /\ UNCHANGED <<csv, csv_readable, columns, cache, session_state, data,
                   date_range, top_countries, country_news, total_pages, page,
                   paginated_news, uncaught>>

\* max_news_count, px.choropleth, plotly_events: the map is drawn
ShowMap ==
    /\ pc = "map"
    /\ shown' = shown \cup {"map"}
    /\ pc' = "top_countries"
    /\ UNCHANGED <<csv, csv_readable, columns, cache, session_state, defined,
                   data, date_range, choropleth_data, top_countries,
                   country_news, total_pages, page, paginated_news, caught,
                   uncaught>>

\* The number of countries the dashboard names under the map
TopN == 3

\* The row orders sort_values(ascending=False) can give a counts table: by
\* count, descending, rows of equal count in any order (quicksort again).
SortedByCount(table) ==
    LET n == Len(table)
        perms == {p \in [1 .. n -> 1 .. n] :
                    /\ \A i, j \in 1 .. n : i # j => p[i] # p[j]
                    /\ \A i, j \in 1 .. n : i < j =>
                         table[p[i]].News_Count >= table[p[j]].News_Count}
    IN  {[i \in 1 .. n |-> table[p[i]]] : p \in perms}

\* The tables table.nlargest(n, 'News_Count') can return.  With n below the
\* number of rows: the n rows of greatest count, by count descending, rows
\* of equal count taken and put in the order they have in the table
\* (keep='first').  With n rows or fewer pandas sorts the whole table with
\* sort_values instead.
NLargest(n, table) ==
    LET len == Len(table)
        rank(i) == 1 + Cardinality({j \in 1 .. len :
                          \/ table[j].News_Count > table[i].News_Count
                          \/ /\ table[j].News_Count = table[i].News_Count
                             /\ j < i})
    IN  IF n >= len
        THEN SortedByCount(table)
        ELSE {[k \in 1 .. n |-> table[CHOOSE i \in 1 .. len : rank(i) = k]]}

\* top_countries = choropleth_data.nlargest(3, 'News_Count'), and its display
TopCountries ==
    /\ pc = "top_countries"
    /\ \E top \in NLargest(TopN, choropleth_data) : top_countries' = top
    /\ defined' = defined \cup {"top_countries"}
    /\ shown' = shown \cup {"top"}
    /\ pc' = "click"
    /\ UNCHANGED <<csv, csv_readable, columns, cache, session_state, data,
                   date_range, choropleth_data, country_news, total_pages,
                   page, paginated_news, caught, uncaught>>

---------------------------------------------------------------------------
(* The news of the selected country *)

\* No 'selected_country' key in st.session_state
Absent == <<"absent">>

\* if selected_points and "pointIndex" in selected_points[0]: the click on
\* the map, if any, selects the country of that row of choropleth_data (rows
\* are numbered from 1 here); then the news are listed when a country is
\* selected, in this run or an earlier one.
SelectCountry ==
    /\ pc = "click"
    /\ \E point \in 0 .. Len(choropleth_data) :
         session_state' =
            IF point = 0 THEN session_state
            ELSE [session_state EXCEPT
                    !.selected_country = choropleth_data[point].Country]
    /\ pc' = IF session_state'.selected_country # Absent
             THEN "country_news" ELSE "analysis"
    /\ UNCHANGED <<csv, csv_readable, columns, cache, defined, data,
                   date_range, choropleth_data, top_countries, country_news,
                   total_pages, page, paginated_news, shown, caught,
                   uncaught>>

\* str.lower on one character
Lower(c) ==
    CASE c = "F" -> "f"
      [] c = "R" -> "r"
      [] c = "A" -> "a"
      [] c = "N" -> "n"
      [] OTHER -> c

\* One character of a pattern against one character of a text, under
\* re.IGNORECASE: "." matches every character, a letter matches itself in
\* either case.
CharMatch(p, c) == p = "." \/ Lower(p) = Lower(c)

\* str.contains(pat, case=False, na=False) on one cell: regex is True by
\* default, so pat is a regular expression searched for in the text; a
\* missing cell gives False.  Patterns here are made of letters and ".".
Contains(text, pat) ==
    /\ text # NaN
    /\ \E start \in 0 .. (Len(text) - Len(pat)) :
         \A k \in 1 .. Len(pat) : CharMatch(pat[k], text[start + k])

\* data[mask]
CountryNewsOf(frame, country, range) ==
    Pick(frame, {i \in 1 .. Len(frame) :
                    /\ Contains(frame[i].Countries_Mentioned, country)
                    /\ InRange(frame[i].Pub_Date, range)})

\* country_news = data[mask]
CountryNews ==
    /\ pc = "country_news"
    /\ shown' = shown \cup {"subheader"}
    /\ country_news' =
          CountryNewsOf(data, session_state.selected_country, date_range)
    /\ defined' = defined \cup {"country_news"}
    /\ pc' = "total_pages"
    /\ UNCHANGED <<csv, csv_readable, columns, cache, session_state, data,
                   date_range, choropleth_data, top_countries, total_pages,
                   page, paginated_news, caught, uncaught>>

---------------------------------------------------------------------------
(* Pagination *)

items_per_page == 10

\* (len(country_news) + items_per_page - 1) // items_per_page
TotalPagesOf(n) == (n + items_per_page - 1) \div items_per_page

TotalPages ==
    /\ pc = "total_pages"
    /\ total_pages' = TotalPagesOf(Len(country_news))
    /\ pc' = "number_input"
    /\ UNCHANGED <<csv, csv_readable, columns, cache, session_state, defined,
                   data, date_range, choropleth_data, top_countries,
                   country_news, page, paginated_news, shown, caught,
                   uncaught>>

\* st.number_input("Page", min_value=1, max_value=total_pages, value=1):
\* streamlit raises when the default value 1 is above max_value; otherwise
\* the user's page, between 1 and total_pages.
NumberInput ==
    /\ pc = "number_input"
    /\ IF total_pages < 1
       THEN /\ Raise("StreamlitAPIException")
            /\ UNCHANGED page
       ELSE /\ \E p \in 1 .. total_pages : page' = p
            /\ pc' = "slice"
            /\ UNCHANGED <<shown, caught>>
    /\ UNCHANGED <<csv, csv_readable, columns, cache, session_state, defined,
                   data, date_range, choropleth_data, top_countries,
                   country_news, total_pages, paginated_news, uncaught>>

\* frame.iloc[start:end], start and end counted from 0, end excluded
ILoc(frame, start, end) ==
    SubSeq(frame, start + 1, IF end < Len(frame) THEN end ELSE Len(frame))

\* country_news.iloc[start:end] for page p
PageOf(frame, p) ==
    LET start == (p - 1) * items_per_page
        end == start + items_per_page
    IN  ILoc(frame, start, end)

Slice ==
    /\ pc = "slice"
    /\ paginated_news' = PageOf(country_news, page)
    /\ pc' = "table"
    /\ UNCHANGED <<csv, csv_readable, columns, cache, session_state, defined,
                   data, date_range, choropleth_data, top_countries,
                   country_news, total_pages, page, shown, caught, uncaught>>

\* if len(paginated_news) > 0: the table, else the message
ShowTable ==
    /\ pc = "table"
    /\ shown' = shown \cup
          {IF Len(paginated_news) > 0 THEN "table" ELSE "no_news"}
    /\ pc' = "analysis"
    /\ UNCHANGED <<csv, csv_readable, columns, cache, session_state, defined,
                   data, date_range, choropleth_data, top_countries,
                   country_news, total_pages, page, paginated_news, caught,
                   uncaught>>

---------------------------------------------------------------------------
(* The analysis section, outside the try block *)

\* st.selectbox(..., choropleth_data["Country"].unique()), then
\* get_conflict_analysis(chosen_country).  Reading choropleth_data raises
\* NameError when the name was not bound in this run.  With no country in
\* the table the selectbox returns None and nothing is asked.  The call to
\* the service returns text, or raises.
Analysis ==
    /\ pc = "analysis"
    /\ IF "choropleth_data" \notin defined
       THEN /\ uncaught' = "NameError"
            /\ UNCHANGED shown
       ELSE IF choropleth_data = <<>>
       THEN UNCHANGED <<uncaught, shown>>
       ELSE \E answered \in BOOLEAN :
              IF answered
              THEN /\ shown' = shown \cup {"analysis"}
                   /\ UNCHANGED uncaught
              ELSE /\ uncaught' = "APIError"
                   /\ UNCHANGED shown
    /\ pc' = "done"
    /\ UNCHANGED <<csv, csv_readable, columns, cache, session_state, defined,
                   data, date_range, choropleth_data, top_countries,
                   country_news, total_pages, page, paginated_news, caught>>

\* The user acts on the page and streamlit runs the script again: the names
\* of the last run are gone, st.session_state and the cache stay, and a
\* sidebar button pressed sets menu_selection.
Rerun ==
    /\ pc = "done"
    /\ \E button \in {"none", "Paper", "Dashboard"} :
         session_state' =
            IF button = "none" THEN session_state
            ELSE [session_state EXCEPT !.menu_selection = button]
    /\ defined' = {}
    /\ data' = <<>>
    /\ date_range' = <<0, 0>>
    /\ choropleth_data' = <<>>
    /\ top_countries' = <<>>
    /\ country_news' = <<>>
    /\ total_pages' = 0
    /\ page' = 0
    /\ paginated_news' = <<>>
    /\ shown' = {}
    /\ caught' = "none"
    /\ uncaught' = "none"
    /\ pc' = "menu"
    /\ UNCHANGED <<csv, csv_readable, columns, cache>>

---------------------------------------------------------------------------
(* Specifications *)

RawRows(countries) ==
    [News_Title : Titles, Pub_Date : RawDates,
     Countries_Mentioned : countries, Conflict_Escalation : RawFlags]

SeqsUpTo(S, n) == UNION {[1 .. k -> S] : k \in 0 .. n}

Repeat(x, n) == [i \in 1 .. n |-> x]

\* The state of a run before its first statement, apart from the file, the
\* cache and the session.
Fresh ==
    /\ defined = {}
    /\ data = <<>>
    /\ date_range = <<0, 0>>
    /\ choropleth_data = <<>>
    /\ top_countries = <<>>
    /\ country_news = <<>>
    /\ total_pages = 0
    /\ page = 0
    /\ paginated_news = <<>>
    /\ shown = {}
    /\ caught = "none"
    /\ uncaught = "none"

\* if "menu_selection" not in st.session_state: ... = "Dashboard"
FirstSession == [menu_selection |-> "Dashboard", selected_country |-> Absent]

\* load_data on every file of at most MaxRows rows
InitLoad ==
    /\ csv \in SeqsUpTo(RawRows({<<"X">>}), MaxRows)
    /\ csv_readable = TRUE
    /\ columns = AllColumns
    /\ cache = <<>>
    /\ session_state = FirstSession
    /\ Fresh
    /\ pc = "load"

SpecLoad == InitLoad /\ [][LoadData]_vars

\* What every table load_data returns has: rows that passed the filter, one
\* row per title, in ascending order of date with the missing dates last.
DataShape(frame) ==
    /\ \A i \in 1 .. Len(frame) : EqTrue(frame[i].Conflict_Escalation)
    /\ \A i, j \in 1 .. Len(frame) :
         i # j => frame[i].News_Title # frame[j].News_Title
    /\ \A i, j \in 1 .. Len(frame) :
         i < j => \/ frame[j].Pub_Date = NaT
                  \/ /\ frame[i].Pub_Date # NaT
                     /\ frame[i].Pub_Date <= frame[j].Pub_Date

LoadedDataShape == "data" \in defined => DataShape(data)

\* The table of shape DataShape whose i-th row has date f[i][1] and
\* countries f[i][2]; its titles are "1", "2", ...
TableOf(f) ==
    [i \in 1 .. Len(f) |->
        [index |-> i,
         News_Title |-> ToString(i),
         Pub_Date |-> f[i][1],
         Countries_Mentioned |-> f[i][2],
         Conflict_Escalation |-> [dtype |-> "bool", v |-> "True"]]]

Tables(countries, n) ==
    {t \in {TableOf(f) :
              f \in SeqsUpTo(({NaT} \cup (0 .. MaxDate)) \X countries, n)} :
        DataShape(t)}

Ranges == (0 .. (MaxDate + 1)) \X (0 .. (MaxDate + 1))

AggCountries == {<<"X">>, <<"Y">>, <<"Z">>, NaN}

\* The larger tables: up to MaxCount rows for each country, all of date 0,
\* the rows of a country next to each other.
GroupedTables ==
    {TableOf(Repeat(<<0, <<"X">> >>, c[1]) \o Repeat(<<0, NaN>>, c[2])
                \o Repeat(<<0, <<"Y">> >>, c[3]) \o Repeat(<<0, <<"Z">> >>, c[4])) :
        c \in [1 .. 4 -> 0 .. MaxCount]}

\* prepare_choropleth_data and nlargest on every loaded table of at most
\* MaxRecs rows, and on the larger tables, with every pair of dates, the
\* inverted pairs too; a file without the 'Countries Mentioned' column has
\* no country cell.
InitAgg ==
    /\ csv = <<>>
    /\ csv_readable = TRUE
    /\ \E hasCountries \in BOOLEAN :
         /\ columns = IF hasCountries THEN AllColumns
                      ELSE AllColumns \ {"Countries Mentioned"}
         /\ data \in IF hasCountries
                     THEN Tables(AggCountries, MaxRecs) \cup GroupedTables
                     ELSE Tables({NaN}, MaxRecs)
    /\ cache = <<data>>
    /\ session_state = FirstSession
    /\ defined = {"data", "date_range"}
    /\ date_range \in Ranges
    /\ choropleth_data = <<>>
    /\ top_countries = <<>>
    /\ country_news = <<>>
    /\ total_pages = 0
    /\ page = 0
    /\ paginated_news = <<>>
    /\ shown = {"title"}
    /\ caught = "none"
    /\ uncaught = "none"
    /\ pc = "choropleth"

NextAgg == PrepareChoropleth \/ ShowMap \/ TopCountries

SpecAgg == InitAgg /\ [][NextAgg]_vars

NewsTexts == {<<"F", "r", "a">>, <<"F", ".">>, <<"a", "n">>, NaN}

NewsPatterns == {<<"f", "r">>, <<"F", ".">>, <<"A", "N">>, Unknown}

\* The news filter and the pagination on every loaded table of at most
\* MaxRecs rows, every selected country and every pair of dates
InitNews ==
    /\ csv = <<>>
    /\ csv_readable = TRUE
    /\ columns = AllColumns
    /\ data \in Tables(NewsTexts, MaxRecs)
    /\ cache = <<data>>
    /\ \E c \in NewsPatterns :
         session_state = [menu_selection |-> "Dashboard",
                          selected_country |-> c]
    /\ defined = {"data", "date_range", "choropleth_data", "top_countries"}
    /\ date_range \in Ranges
    /\ choropleth_data \in
          PrepareChoroplethData(data, date_range, columns).tables
    /\ top_countries \in NLargest(TopN, choropleth_data)
    /\ country_news = <<>>
    /\ total_pages = 0
    /\ page = 0
    /\ paginated_news = <<>>
    /\ shown = {"title", "map", "top"}
    /\ caught = "none"
    /\ uncaught = "none"
    /\ pc = "country_news"

NextNews == CountryNews \/ TotalPages \/ NumberInput \/ Slice \/ ShowTable

SpecNews == InitNews /\ [][NextNews]_vars

France == <<"F", "r", "a">>

\* The pagination of the news of the selected country, for the table of n
\* rows that mention France, n from 0 to MaxNews, and one row without
\* country, the country selected on the map being France or Unknown
InitPage ==
    /\ csv = <<>>
    /\ csv_readable = TRUE
    /\ columns = AllColumns
    /\ \E n \in 0 .. MaxNews :
         data = TableOf(Repeat(<<0, France>>, n) \o << <<0, NaN>> >>)
    /\ cache = <<data>>
    /\ \E c \in {France, Unknown} :
         session_state = [menu_selection |-> "Dashboard",
                          selected_country |-> c]
    /\ defined = {"data", "date_range", "choropleth_data", "top_countries",
                  "country_news"}
    /\ date_range = <<0, 0>>
    /\ choropleth_data \in
          PrepareChoroplethData(data, date_range, columns).tables
    /\ top_countries \in NLargest(TopN, choropleth_data)
    /\ country_news =
          CountryNewsOf(data, session_state.selected_country, date_range)
    /\ total_pages = 0
    /\ page = 0
    /\ paginated_news = <<>>
    /\ shown = {"title", "map", "top", "subheader"}
    /\ caught = "none"
    /\ uncaught = "none"
    /\ pc = "total_pages"

NextPage == TotalPages \/ NumberInput \/ Slice \/ ShowTable

SpecPage == InitPage /\ [][NextPage]_vars

ScriptCountries == {France, NaN}

\* The first run of the script in a session, on every file of at most
\* MaxFileRows rows, on a file that cannot be read and on files without
\* the 'Countries Mentioned' or the 'Pub_Date' column
Init ==
    /\ csv_readable \in BOOLEAN
    /\ columns \in {AllColumns, AllColumns \ {"Countries Mentioned"},
                    AllColumns \ {"Pub_Date"}}
    /\ ~csv_readable => columns = AllColumns
    /\ csv \in IF ~csv_readable \/ "Pub_Date" \notin columns THEN {<<>>}
               ELSE SeqsUpTo(RawRows(IF "Countries Mentioned" \in columns
                                     THEN ScriptCountries ELSE {NaN}),
                             MaxFileRows)
    /\ cache = <<>>
    /\ session_state = FirstSession
    /\ Fresh
    /\ pc = "menu"

Next ==
    \/ Menu
    \/ LoadData
    \/ Slider
    \/ PrepareChoropleth
    \/ ShowMap
    \/ TopCountries
    \/ SelectCountry
    \/ CountryNews
    \/ TotalPages
    \/ NumberInput
    \/ Slice
    \/ ShowTable
    \/ Analysis
    \/ Rerun

Spec == Init /\ [][Next]_vars

---------------------------------------------------------------------------
(* Properties of load_data, under SpecLoad *)

\* The frame load_data filters: the file's rows with parsed timestamps
Frame == ToDatetime(ReadCsv(csv))

Loaded == "data" \in defined

IsBooleanTrue(cell) == cell = [dtype |-> "bool", v |-> "True"]

IsNumberOne(cell) == cell = [dtype |-> "int64", v |-> "1"]

\* The rows of the frame with title t whose indicator passed the filter
FlaggedRows(t) ==
    {i \in 1 .. Len(Frame) :
        /\ Frame[i].News_Title = t
        /\ (IsBooleanTrue(Frame[i].Conflict_Escalation)
            \/ IsNumberOne(Frame[i].Conflict_Escalation))}

\* C1: the table load_data returns holds no two records with the same
\* News_Title.
C1_NoDuplicateTitles ==
    Loaded =>
        \A i, j \in 1 .. Len(data) :
            i # j => data[i].News_Title # data[j].News_Title

\* A file with two flagged rows of one title has been loaded.
C1_Witness ==
    /\ Loaded
    /\ Len(data) >= 1
    /\ \E t \in Titles : Cardinality(FlaggedRows(t)) >= 2

\* C2: for every title with a flagged row, load_data returns exactly one
\* record of that title, and it is the flagged row with the maximum
\* timestamp: no flagged row of the title has a timestamp when the kept row
\* has none, or a later one.
C2_LatestFlaggedRowKept ==
    Loaded =>
        \A t \in Titles :
            FlaggedRows(t) # {} =>
                /\ Cardinality({k \in 1 .. Len(data) :
                                   data[k].News_Title = t}) = 1
                /\ \A k \in 1 .. Len(data) :
                     data[k].News_Title = t =>
                        /\ data[k].index \in FlaggedRows(t)
                        /\ \A i \in FlaggedRows(t) :
                             Frame[i].Pub_Date # NaT =>
                                /\ Frame[data[k].index].Pub_Date # NaT
                                /\ Frame[i].Pub_Date <=
                                      Frame[data[k].index].Pub_Date

\* C3, as stated: a row is retained if and only if its indicator is the
\* boolean True, so every returned record has the boolean True and a title
\* is returned exactly when one of its rows has the boolean True.
C3_OnlyBooleanTrueRetained ==
    Loaded =>
        /\ \A k \in 1 .. Len(data) :
             IsBooleanTrue(data[k].Conflict_Escalation)
        /\ \A t \in Titles :
             (\E k \in 1 .. Len(data) : data[k].News_Title = t)
                <=> (\E i \in 1 .. Len(Frame) :
                        /\ Frame[i].News_Title = t
                        /\ IsBooleanTrue(Frame[i].Conflict_Escalation))

\* C3, amended: a row is retained if and only if its indicator is equal to
\* True, which the boolean True and the number 1 are and text is not; every
\* returned record has such an indicator and a title is returned exactly
\* when one of its rows has one.
C3_EqualToTrueRetained ==
    Loaded =>
        /\ \A k \in 1 .. Len(data) :
             \/ IsBooleanTrue(data[k].Conflict_Escalation)
             \/ IsNumberOne(data[k].Conflict_Escalation)
        /\ \A t \in Titles :
             (\E k \in 1 .. Len(data) : data[k].News_Title = t)
                <=> FlaggedRows(t) # {}

\* A file whose indicator column is made of the number 1 has been loaded and
\* a row of it is returned.
C3_Witness ==
    /\ Loaded
    /\ \E k \in 1 .. Len(data) : IsNumberOne(data[k].Conflict_Escalation)

\* C4: when a title has a flagged row without timestamp and a flagged row
\* with one, the record kept for the title is not the row without timestamp.
C4_NullTimestampRowNotKept ==
    Loaded =>
        \A k \in 1 .. Len(data) :
            data[k].Pub_Date = NaT =>
                \A i \in FlaggedRows(data[k].News_Title) :
                    Frame[i].Pub_Date = NaT

---------------------------------------------------------------------------
(* Properties of prepare_choropleth_data and nlargest, under SpecAgg *)

Counted == "choropleth_data" \in defined

\* The rows of data whose date lies in [start, end], both ends included
RowsInRange ==
    {i \in 1 .. Len(data) :
        /\ data[i].Pub_Date # NaT
        /\ date_range[1] <= data[i].Pub_Date
        /\ data[i].Pub_Date <= date_range[2]}

\* The country a row counts for
Label(i) ==
    IF data[i].Countries_Mentioned = NaN THEN Unknown
    ELSE data[i].Countries_Mentioned

SumCounts(table) ==
    LET S[k \in 0 .. Len(table)] ==
            IF k = 0 THEN 0 ELSE S[k - 1] + table[k].News_Count
    IN  S[Len(table)]

\* C5: the counts table has exactly one entry per country of the rows in the
\* inclusive range, a missing country counted as "Unknown"; each count is
\* the number of those rows with that country, and the counts sum to the
\* number of those rows.
C5_OneEntryPerCountry ==
    Counted =>
        /\ {choropleth_data[k].Country : k \in 1 .. Len(choropleth_data)}
              = {Label(i) : i \in RowsInRange}
        /\ \A k, l \in 1 .. Len(choropleth_data) :
             k # l => choropleth_data[k].Country # choropleth_data[l].Country
        /\ \A k \in 1 .. Len(choropleth_data) :
             choropleth_data[k].News_Count =
                Cardinality({i \in RowsInRange :
                                Label(i) = choropleth_data[k].Country})
        /\ SumCounts(choropleth_data) = Cardinality(RowsInRange)

\* Rows on both ends of the range, a row outside it and a row without
\* country have been counted.
C5_Witness ==
    /\ Counted
    /\ \E i \in RowsInRange :
         /\ data[i].Pub_Date = date_range[1]
         /\ data[i].Pub_Date = date_range[2]
    /\ \E i \in RowsInRange : data[i].Countries_Mentioned = NaN
    /\ \E i \in 1 .. Len(data) : i \notin RowsInRange
    /\ Len(choropleth_data) >= 2

SortedDescending(table) ==
    \A k, l \in 1 .. Len(table) :
        k < l => table[k].News_Count >= table[l].News_Count

\* The first row in the range that counts for country c
FirstSeenAt(c) == Min({i \in RowsInRange : Label(i) = c})

\* top is n rows of table (all of them when it has fewer) of the highest
\* counts, by count descending.
IsTopOf(top, n, table) ==
    /\ Len(top) = (IF n < Len(table) THEN n ELSE Len(table))
    /\ SortedDescending(top)
    /\ \E pos \in [1 .. Len(top) -> 1 .. Len(table)] :
         /\ \A k \in 1 .. Len(top) : top[k] = table[pos[k]]
         /\ \A k, l \in 1 .. Len(top) : k # l => pos[k] # pos[l]
         /\ \A j \in 1 .. Len(table) :
              (\A k \in 1 .. Len(top) : pos[k] # j) =>
                 \A k \in 1 .. Len(top) :
                    table[j].News_Count <= top[k].News_Count

\* C6, as stated: the counts table is sorted by count, descending, and
\* entries of equal count are in the order in which their country was first
\* seen in the filtered rows.
C6_TiesInFirstSeenOrder ==
    Counted =>
        /\ SortedDescending(choropleth_data)
        /\ \A k, l \in 1 .. Len(choropleth_data) :
             (/\ k < l
              /\ choropleth_data[k].News_Count = choropleth_data[l].News_Count)
                => FirstSeenAt(choropleth_data[k].Country)
                      < FirstSeenAt(choropleth_data[l].Country)

\* C6, amended: the counts table is sorted by count, descending, entries of
\* equal count in no fixed order; top_countries is TopN entries of the
\* highest counts (all entries when there are fewer), by count descending;
\* and taking them leaves the counts table as it was.
C6_SortedAndTopN ==
    /\ [](Counted => SortedDescending(choropleth_data))
    /\ []("top_countries" \in defined =>
             IsTopOf(top_countries, TopN, choropleth_data))
    /\ [][pc = "top_countries" => choropleth_data' = choropleth_data]_vars

\* The top three of a table of four countries, two of them with equal
\* counts, have been taken.
C6_Witness ==
    /\ "top_countries" \in defined
    /\ Len(choropleth_data) > TopN
    /\ Len(top_countries) = TopN
    /\ \E k, l \in 1 .. Len(choropleth_data) :
         /\ k # l
         /\ choropleth_data[k].News_Count = choropleth_data[l].News_Count
    /\ choropleth_data[1].News_Count > choropleth_data[2].News_Count

\* C7, as stated: prepare_choropleth_data fails with EmptyRangeError when
\* the range's start is after its end, and only then.
C7_EmptyRangeErrorOnInverted ==
    pc # "choropleth" =>
        (caught = "EmptyRangeError" <=> date_range[1] > date_range[2])

\* C7, amended: prepare_choropleth_data never fails with EmptyRangeError,
\* whatever the range; it fails, with ValueError, exactly when the
\* 'Countries Mentioned' column is absent, and for an inverted range it
\* returns the empty table.
C7_InvertedRangeGivesEmptyTable ==
    pc # "choropleth" =>
        /\ caught # "EmptyRangeError"
        /\ caught = "ValueError" <=> "Countries Mentioned" \notin columns
        /\ caught = "none" <=> Counted
        /\ (Counted /\ date_range[1] > date_range[2]) => choropleth_data = <<>>

\* The news of an inverted range have been counted: no row, no exception.
C7_Witness ==
    /\ pc = "map"
    /\ date_range[1] > date_range[2]
    /\ data # <<>>
    /\ Counted
    /\ choropleth_data = <<>>
    /\ caught = "none"

---------------------------------------------------------------------------
(* Properties of the news filter, under SpecNews *)

\* pat occurs in text, letter case ignored
IsSubstringIgnoringCase(pat, text) ==
    \E start \in 0 .. (Len(text) - Len(pat)) :
        \A k \in 1 .. Len(pat) : Lower(pat[k]) = Lower(text[start + k])

\* C8: country_news is exactly the rows of data whose 'Countries Mentioned'
\* holds the selected country as a case-insensitive substring and whose date
\* lies in the inclusive range, in the order of data; rows without country
\* are not among them.
C8_SubstringAndRange ==
    "country_news" \in defined =>
        country_news =
            Pick(data,
                 {i \in RowsInRange :
                     /\ data[i].Countries_Mentioned # NaN
                     /\ IsSubstringIgnoringCase(
                            session_state.selected_country,
                            data[i].Countries_Mentioned)})

---------------------------------------------------------------------------
(* Properties of the pagination, under SpecPage *)

\* C9: n matching records give ceil(n / 10) pages numbered from 1; page p
\* shows the records at positions (p-1)*10 .. min(p*10, n) - 1, counted from
\* 0, so that every record is on exactly one page, every page but the last
\* holds 10 records and the last the rest; and with n = 0 the view shows the
\* "No news articles found" message and no exception is raised.
C9_PagesAndEmptyMessage ==
    LET n == Len(country_news)
        pages == IF n % 10 = 0 THEN n \div 10 ELSE n \div 10 + 1
        Shown(p) == {i \in 1 .. n : (p - 1) * 10 < i /\ i <= p * 10}
    IN  pc \in {"analysis", "done"} =>
           /\ n = 0 => ("no_news" \in shown /\ caught = "none")
           /\ n > 0 =>
                /\ total_pages = pages
                /\ page \in 1 .. pages
                /\ paginated_news = Pick(country_news, Shown(page))
                /\ \A i \in 1 .. n :
                     Cardinality({p \in 1 .. pages :
                        \E k \in 1 .. Len(PageOf(country_news, p)) :
                            PageOf(country_news, p)[k] = country_news[i]}) = 1
                /\ \A p \in 1 .. pages :
                     Len(PageOf(country_news, p)) =
                        (IF p < pages THEN 10 ELSE n - 10 * (pages - 1))
                /\ "table" \in shown

---------------------------------------------------------------------------
(* Properties of a run of the script, under Spec *)

\* C10: whatever the menu selection and whether or not loading or counting
\* failed, the run finishes without an unhandled exception: the analysis
\* section reads choropleth_data only when the run has bound it, and a
\* failure of the analysis call is shown as an error message.
C10_NoUnhandledException ==
    pc = "done" => uncaught = "none"

====
